---- MODULE Spec2Model ----
(***************************************************************************)
(* Roleplay API (src/app.py): session store, stage classifier, response    *)
(* composer and the three HTTP handlers /start, /chat and /scores.         *)
(*                                                                         *)
(* A request is run by a worker thread t.  /start and /scores touch the    *)
(* shared state once and are one step each; /chat is a sequence of steps,  *)
(* one per access to the shared state, so the position of the handler is   *)
(* pc[t].  Spec runs the requests one at a time on a single worker.        *)
(*                                                                         *)
(* Texts are records [word, caps, pad] so that strip() and lower() are     *)
(* real conversions: pad says the text has surrounding white space, caps   *)
(* that it has upper-case letters.  A plain string s is Txt(s).            *)
(* The catalog source is assumed to hold what section 6 of the spec says   *)
(* it holds (an array of records), so building the prompt never raises.    *)
(***************************************************************************)
EXTENDS Integers, Sequences, FiniteSets, TLC

\* ---------------------------------------------------------------- bounds
MaxSessions == 2
MaxChats == 2

\* /chat requests accepted when the classifier's texts are traced
MaxAutoChats == 1

\* /chat requests accepted when two workers run them concurrently
MaxConcChats == 3

\* sessions that exist when the concurrent runs start
MaxConcSessions == 1

\* ------------------------------------------------------------- constants
Stages ==
  {"opening", "discovery", "presentation", "objection_handling",
   "closing", "follow_up", "general"}

Roles == {"seller", "buyer"}

Threads == {1, 2}

SeqThreads == {1}

\* identifiers uuid4 can produce, and identifiers a client can send
\* (0 is a string that is not the identifier of any session)
SessionIds == 1..MaxSessions

ClientIds == 0..MaxSessions

\* roles a client posts
RoleInputs == {"seller"}

\* stage strings a client posts: the default, a valid label, and a string
\* that is not a label
StageInputs == {"auto", "closing", "Opening"}

\* texts the classifier's model call can return
Txt(s) == [word |-> s, caps |-> FALSE, pad |-> FALSE]

ClassifierTexts ==
  [word : {"discovery", "general", "I think: closing"},
   caps : BOOLEAN, pad : BOOLEAN]

\* the wider set of texts used where the classifier itself is examined:
\* every label and two texts that are not labels, in every casing and padding
AllClassifierTexts ==
  [word : Stages \cup {"I think: closing", ""},
   caps : BOOLEAN, pad : BOOLEAN]

AllClassifierOutcomes ==
  {[ok |-> FALSE, text |-> Txt("")]}
    \cup [ok : {TRUE}, text : AllClassifierTexts]

\* what model.generate_content(stage_prompt) can do: raise, or return a text
ClassifierOutcomes ==
  {[ok |-> FALSE, text |-> Txt("")]} \cup [ok : {TRUE}, text : ClassifierTexts]

ReplyTexts == {"Sure, here it is."}

FailureReasons == {"quota exceeded"}

\* what model.generate_content(chat_history) can do
GenerateOutcomes ==
  [ok : {TRUE}, text : ReplyTexts] \cup [ok : {FALSE}, text : FailureReasons]

\* what products.json / products.csv can hold when they are read
ProductFiles ==
  {<< >>, <<"p1", "p2", "p3", "p4", "p5", "p6">>}

\* what load_local_product_data can do: raise or find no file, or read one
LoadOutcomes ==
  {[ok |-> FALSE, data |-> << >>]} \cup [ok : {TRUE}, data : ProductFiles]

\* what seller_script.txt / buyer_script.txt held at startup
ScriptConfigs ==
  {[seller |-> <<"Greet", "Pitch">>, buyer |-> << >>]}

\* ----------------------------------------------------------------- state
VARIABLES
  session_scores,  \* session id -> (stage label -> count)
  chat_history,    \* the transcript shared by all sessions
  product_data,    \* the catalog
  role_scripts,    \* role -> script lines
  issued,          \* identifiers /start has returned
  pc,              \* thread -> position in its handler
  frame,           \* thread -> locals of its /chat request
  resp,            \* thread -> the last HTTP response it produced
  model_calls,     \* classification calls, generation calls, replies made
  chat_calls       \* session id -> (stage string -> accepted /chat requests)

vars ==
  <<session_scores, chat_history, product_data, role_scripts, issued,
    pc, frame, resp, model_calls, chat_calls>>

NoFrame == [op |-> "none"]

NoResp == [op |-> "none"]

\* the frame's record of the classifier's text when it is not traced
NoText == [word |-> "", caps |-> FALSE, pad |-> FALSE]

ZeroScores == [s \in Stages |-> 0]

ZeroCalls == [s \in StageInputs |-> 0]

Min(a, b) == IF a < b THEN a ELSE b

RECURSIVE SumOver(_, _)
SumOver(f, keys) ==
  IF keys = {} THEN 0
  ELSE LET k == CHOOSE x \in keys : TRUE
       IN f[k] + SumOver(f, keys \ {k})

\* the sum of the values of a function into the naturals
Sum(f) == SumOver(f, DOMAIN f)

\* accepted /chat requests so far
NumChats == Sum([i \in DOMAIN chat_calls |-> Sum(chat_calls[i])])

\* ------------------------------------------------------- pure functions
\* str.strip()
strip(t) == [t EXCEPT !.pad = FALSE]

\* variant: the text is not lower-cased
lower_identity(t) == t

\* str.lower()
lower(t) == [t EXCEPT !.caps = FALSE]

\* variant: the except branch leaves the stage unresolved
detect_conversation_stage_unresolved(outcome) ==
  IF ~outcome.ok THEN "auto"
  ELSE LET detected == lower(strip(outcome.text))
       IN IF \E s \in Stages : detected = Txt(s)
          THEN detected.word
          ELSE "general"

\* detect_conversation_stage, given what the model call did
detect_conversation_stage(outcome) ==
  IF ~outcome.ok THEN "general"
  ELSE LET detected == lower(strip(outcome.text))
       IN IF \E s \in Stages : detected = Txt(s)
          THEN detected.word
          ELSE "general"

\* variant: the catalog is reloaded on every request
catalog_empty_always(products) == TRUE

\* generate_response: "not product_data"
catalog_empty(products) == products = << >>

\* variant: every stage string that is not a label is classified
needs_classification_nonlabel(stage) == stage \notin Stages

\* generate_response: stage == "auto"
needs_classification(stage) == stage = "auto"

\* load_local_product_data: the catalog after the call
load_local_product_data(products, outcome) ==
  IF outcome.ok THEN outcome.data ELSE products

\* variant: chat_handler without the session check
chat_session_unchecked(scores, session_id) == TRUE

\* the session check of chat_handler
chat_session_known(scores, session_id) == session_id \in DOMAIN scores

\* the session check of get_scores
scores_session_known(scores, session_id) == session_id \in DOMAIN scores

\* variant: the stage is not checked, a missing counter reads as 0
score_lookup_default(scores, stage, session_id) ==
  IF session_id \in DOMAIN scores
  THEN [found |-> TRUE,
        value |-> IF stage \in DOMAIN scores[session_id]
                  THEN scores[session_id][stage] ELSE 0]
  ELSE [found |-> FALSE, value |-> 0]

\* update_stage_score: the guard, and the counter read when it holds
score_lookup(scores, stage, session_id) ==
  IF session_id \in DOMAIN scores /\ stage \in DOMAIN scores[session_id]
  THEN [found |-> TRUE, value |-> scores[session_id][stage]]
  ELSE [found |-> FALSE, value |-> 0]

\* variant: "= 1" instead of "+= 1"
store_score_once(scores, stage, session_id, value) ==
  [scores EXCEPT ![session_id] = (stage :> 1) @@ @]

\* variant: every session holds the same scoreboard object
store_score_shared(scores, stage, session_id, value) ==
  [i \in DOMAIN scores |-> (stage :> value) @@ scores[i]]

\* variant: the counter is read again when it is written (a guarded "+= 1")
store_score_guarded(scores, stage, session_id, value) ==
  [scores EXCEPT ![session_id] = (stage :> scores[session_id][stage] + 1) @@ @]

\* update_stage_score: the store after session_scores[session_id][stage]
\* is assigned value (assigning to a dict key creates the key if absent)
store_score(scores, stage, session_id, value) ==
  [scores EXCEPT ![session_id] = (stage :> value) @@ @]

\* variant: only the new user turn is handed over
transcript_last(history) == <<history[Len(history)]>>

\* the transcript generate_response hands to model.generate_content
transcript_for(history) == history

\* variant: no try/except around the generation call
generate_result_uncaught(outcome) ==
  IF outcome.ok
  THEN [raised |-> FALSE, response |-> outcome.text]
  ELSE [raised |-> TRUE, response |-> << >>]

\* the try/except of generate_response around the generation call:
\* whether the exception leaves the function, and the text returned
generate_result(outcome) ==
  IF outcome.ok
  THEN [raised |-> FALSE, response |-> outcome.text]
  ELSE [raised |-> FALSE, response |-> <<"Response error: ", outcome.text>>]

\* variant: the reply, or the error marker, is always appended
appends_reply_always(outcome) == TRUE

\* generate_response: line 112 is reached when line 111 did not raise
appends_reply(outcome) == outcome.ok

\* product_data[:5]
first_five(products) == SubSeq(products, 1, Min(5, Len(products)))

\* full_prompt of generate_response
full_prompt(prompt, stage, role, products, scripts) ==
  [context |-> <<role, stage>>,
   products |-> IF first_five(products) = << >> THEN <<"No product data.">>
                ELSE first_five(products),
   script |-> scripts[role],
   user |-> prompt]

user_turn(text) == [role |-> "user", parts |-> text]

model_turn(text) == [role |-> "model", parts |-> text]

\* variant: the transcript is rebuilt from the copy handed to the model
history_after_reply_rebuilt(history, handed, text) ==
  Append(handed, model_turn(text))

\* generate_response: chat_history.append({"role": "model", ...})
history_after_reply(history, handed, text) ==
  Append(history, model_turn(text))

\* variant: an identifier generator that can repeat itself
uuid4_repeating(used) == SessionIds

\* str(uuid4()): the values the call can return, given those returned so far.
\* The call never returns a value twice; identifiers are opaque, so they are
\* numbered in the order in which they are generated.
uuid4(used) ==
  {i \in SessionIds \ used : \A j \in SessionIds \ used : i <= j}

\* variant: a scoreboard that does not start at zero
new_scoreboard_nonzero == [s \in Stages |-> IF s = "general" THEN 1 ELSE 0]

\* the scoreboard start_session stores
new_scoreboard == ZeroScores

\* the scores field of a /chat or /scores success response
scores_of(scores, session_id) == scores[session_id]

\* ------------------------------------------------------------------ Init
Init ==
  /\ session_scores = << >>
  /\ chat_history = << >>
  /\ product_data \in ProductFiles
  /\ role_scripts \in ScriptConfigs
  /\ issued = {}
  /\ pc = [t \in Threads |-> "idle"]
  /\ frame = [t \in Threads |-> NoFrame]
  /\ resp = [t \in Threads |-> NoResp]
  /\ model_calls = [classify |-> 0, generate |-> 0, replied |-> 0]
  /\ chat_calls = << >>

\* ---------------------------------------------------------------- /start
start_session(t) ==
  /\ pc[t] = "idle"
  /\ \E session_id \in uuid4(issued) :
       /\ session_scores' =
            IF session_id \in DOMAIN session_scores
            THEN [session_scores EXCEPT ![session_id] = new_scoreboard]
            ELSE session_scores @@ (session_id :> new_scoreboard)
       /\ chat_calls' =
            IF session_id \in DOMAIN chat_calls THEN chat_calls
            ELSE chat_calls @@ (session_id :> ZeroCalls)
       /\ issued' = issued \cup {session_id}
       /\ resp' = [resp EXCEPT ![t] =
                     [op |-> "start", status |-> 200, session_id |-> session_id]]
  /\ frame' = [frame EXCEPT ![t] = NoFrame]
  /\ UNCHANGED <<chat_history, product_data, role_scripts, pc, model_calls>>

\* --------------------------------------------------------------- /scores
get_scores(t) ==
  /\ pc[t] = "idle"
  /\ \E session_id \in ClientIds :
       resp' = [resp EXCEPT ![t] =
                  IF ~scores_session_known(session_scores, session_id)
                  THEN [op |-> "scores", status |-> 400,
                        session_id |-> session_id,
                        detail |-> "Invalid session ID"]
                  ELSE [op |-> "scores", status |-> 200,
                        session_id |-> session_id,
                        scores |-> scores_of(session_scores, session_id)]]
  /\ frame' = [frame EXCEPT ![t] = NoFrame]
  /\ UNCHANGED <<session_scores, chat_history, product_data, role_scripts,
                 issued, pc, model_calls, chat_calls>>

\* ----------------------------------------------------------------- /chat
\* chat_handler up to the call of generate_response, for requests whose
\* session_id is drawn from ids and whose stage is drawn from stages, at most
\* limit of them accepted; when traced, the frame also keeps the store, the
\* transcript and the call counts the request started from
chat_request(t, ids, stages, limit, traced) ==
  /\ pc[t] = "idle"
  /\ \E session_id \in ids :
       IF ~chat_session_known(session_scores, session_id)
       THEN /\ resp' = [resp EXCEPT ![t] =
                         [op |-> "chat", status |-> 400,
                          session_id |-> session_id,
                          detail |-> "Invalid session ID"]]
            /\ frame' = [frame EXCEPT ![t] = NoFrame]
            /\ UNCHANGED <<pc, chat_calls>>
       ELSE \E stage \in stages, role \in RoleInputs :
            /\ NumChats < limit
            /\ frame' = [frame EXCEPT ![t] =
                          [op |-> "chat", session_id |-> session_id,
                           stage_in |-> stage, stage |-> stage, role |-> role,
                           prompt |-> NumChats + 1, cls |-> "none",
                           tmp |-> 0, gen |-> "none", raised |-> FALSE,
                           response |-> << >>, handed |-> << >>,
                           load |-> "none", cat0 |-> << >>,
                           cls_text |-> NoText,
                           user_pos |-> 0, model_pos |-> 0,
                           pre |-> IF traced THEN session_scores ELSE << >>,
                           hist0 |-> IF traced THEN chat_history ELSE << >>,
                           calls0 |-> IF traced THEN model_calls
                                      ELSE [classify |-> 0, generate |-> 0,
                                            replied |-> 0]]]
            /\ chat_calls' = [chat_calls EXCEPT ![session_id][stage] = @ + 1]
            /\ resp' = [resp EXCEPT ![t] = NoResp]
            /\ pc' = [pc EXCEPT ![t] = "load"]
  /\ UNCHANGED <<session_scores, chat_history, product_data, role_scripts,
                 issued, model_calls>>

chat_handler(t) == chat_request(t, ClientIds, StageInputs, MaxChats, TRUE)

\* generate_response: if not product_data: load_local_product_data()
gen_load(t) ==
  /\ pc[t] = "load"
  /\ IF catalog_empty(product_data)
     THEN \E outcome \in LoadOutcomes :
            /\ product_data' = load_local_product_data(product_data, outcome)
            /\ frame' = [frame EXCEPT
                           ![t].load = IF outcome.ok THEN "loaded"
                                       ELSE "failed",
                           ![t].cat0 = product_data]
     ELSE /\ UNCHANGED product_data
          /\ frame' = [frame EXCEPT ![t].load = "skipped",
                                    ![t].cat0 = product_data]
  /\ pc' = [pc EXCEPT ![t] = "classify"]
  /\ UNCHANGED <<session_scores, chat_history, role_scripts, issued,
                 resp, model_calls, chat_calls>>

\* generate_response: if stage == "auto": stage = detect_conversation_stage()
\* with the model call's outcome drawn from outcomes; the text the call
\* returned is kept in the frame when traced
classify_step(t, outcomes, traced) ==
  /\ pc[t] = "classify"
  /\ IF needs_classification(frame[t].stage)
     THEN \E outcome \in outcomes :
            /\ frame' = [frame EXCEPT
                           ![t].stage = detect_conversation_stage(outcome),
                           ![t].cls = IF outcome.ok THEN "ok" ELSE "failed",
                           ![t].cls_text = IF traced THEN outcome.text
                                           ELSE NoText]
            /\ model_calls' = [model_calls EXCEPT !.classify = @ + 1]
     ELSE UNCHANGED <<frame, model_calls>>
  /\ pc' = [pc EXCEPT ![t] = "score_read"]
  /\ UNCHANGED <<session_scores, chat_history, product_data, role_scripts,
                 issued, resp, chat_calls>>

gen_classify(t) == classify_step(t, ClassifierOutcomes, FALSE)

\* update_stage_score: the guard and the read of the counter
update_read(t) ==
  /\ pc[t] = "score_read"
  /\ LET found == score_lookup(session_scores, frame[t].stage,
                               frame[t].session_id)
     IN IF found.found
        THEN /\ frame' = [frame EXCEPT ![t].tmp = found.value]
             /\ pc' = [pc EXCEPT ![t] = "score_write"]
        ELSE /\ pc' = [pc EXCEPT ![t] = "append_user"]
             /\ UNCHANGED frame
  /\ UNCHANGED <<session_scores, chat_history, product_data, role_scripts,
                 issued, resp, model_calls, chat_calls>>

\* update_stage_score: the write of the counter
update_write(t) ==
  /\ pc[t] = "score_write"
  /\ session_scores' = store_score(session_scores, frame[t].stage,
                                   frame[t].session_id, frame[t].tmp + 1)
  /\ pc' = [pc EXCEPT ![t] = "append_user"]
  /\ UNCHANGED <<chat_history, product_data, role_scripts, issued, frame,
                 resp, model_calls, chat_calls>>

\* generate_response: build full_prompt and append the user turn
gen_append_user(t) ==
  /\ pc[t] = "append_user"
  /\ chat_history' =
       Append(chat_history,
              user_turn(full_prompt(frame[t].prompt, frame[t].stage,
                                    frame[t].role, product_data, role_scripts)))
  /\ frame' = [frame EXCEPT ![t].user_pos = Len(chat_history) + 1]
  /\ pc' = [pc EXCEPT ![t] = "generate"]
  /\ UNCHANGED <<session_scores, product_data, role_scripts, issued,
                 resp, model_calls, chat_calls>>

\* generate_response: response = model.generate_content(chat_history)
gen_call(t) ==
  /\ pc[t] = "generate"
  /\ \E outcome \in GenerateOutcomes :
       /\ frame' = [frame EXCEPT
                      ![t].handed = transcript_for(chat_history),
                      ![t].gen = IF outcome.ok THEN "ok" ELSE outcome.text,
                      ![t].raised = generate_result(outcome).raised,
                      ![t].response = generate_result(outcome).response]
       /\ pc' = [pc EXCEPT ![t] = IF appends_reply(outcome)
                                  THEN "append_model" ELSE "return"]
       /\ model_calls' = [model_calls EXCEPT
                            !.generate = @ + 1,
                            !.replied = IF outcome.ok THEN @ + 1 ELSE @]
  /\ UNCHANGED <<session_scores, chat_history, product_data, role_scripts,
                 issued, resp, chat_calls>>

\* generate_response: append the model turn
gen_append_model(t) ==
  /\ pc[t] = "append_model"
  /\ chat_history' = history_after_reply(chat_history, frame[t].handed,
                                         frame[t].response)
  /\ frame' = [frame EXCEPT ![t].model_pos = Len(chat_history) + 1]
  /\ pc' = [pc EXCEPT ![t] = "return"]
  /\ UNCHANGED <<session_scores, product_data, role_scripts, issued,
                 resp, model_calls, chat_calls>>

\* variant: the scores are read before generate_response is called
chat_response_stale(scores, f) ==
  IF ~f.raised /\ f.session_id \in DOMAIN scores
  THEN [op |-> "chat", status |-> 200, session_id |-> f.session_id,
        response |-> f.response, scores |-> f.pre[f.session_id]]
  ELSE [op |-> "chat", status |-> 500, session_id |-> f.session_id]

\* chat_handler: the response built after generate_response returned
\* (an exception leaving the handler is an HTTP 500)
chat_response(scores, f) ==
  IF ~f.raised /\ f.session_id \in DOMAIN scores
  THEN [op |-> "chat", status |-> 200, session_id |-> f.session_id,
        response |-> f.response, scores |-> scores_of(scores, f.session_id)]
  ELSE [op |-> "chat", status |-> 500, session_id |-> f.session_id]

chat_return(t) ==
  /\ pc[t] = "return"
  /\ resp' = [resp EXCEPT ![t] = chat_response(session_scores, frame[t])]
  /\ pc' = [pc EXCEPT ![t] = "idle"]
  /\ UNCHANGED <<session_scores, chat_history, product_data, role_scripts,
                 issued, frame, model_calls, chat_calls>>

\* ------------------------------------------------------- specifications
Step(t) ==
  \/ start_session(t)
  \/ get_scores(t)
  \/ chat_handler(t)
  \/ gen_load(t)
  \/ gen_classify(t)
  \/ update_read(t)
  \/ update_write(t)
  \/ gen_append_user(t)
  \/ gen_call(t)
  \/ gen_append_model(t)
  \/ chat_return(t)

\* requests executed one at a time
Next == \E t \in SeqThreads : Step(t)

Spec == Init /\ [][Next]_vars

\* /chat requests posted with stage "auto" only
chat_handler_auto(t) ==
  chat_request(t, ClientIds, {"auto"}, MaxAutoChats, TRUE)

\* the classification step over the wider set of texts, the text kept
gen_classify_traced(t) == classify_step(t, AllClassifierOutcomes, TRUE)

\* requests one at a time, every /chat classified
NextClassify ==
  \E t \in SeqThreads :
    \/ start_session(t)
    \/ get_scores(t)
    \/ chat_handler_auto(t)
    \/ gen_load(t)
    \/ gen_classify_traced(t)
    \/ update_read(t)
    \/ update_write(t)
    \/ gen_append_user(t)
    \/ gen_call(t)
    \/ gen_append_model(t)
    \/ chat_return(t)

SpecClassify == Init /\ [][NextClassify]_vars

\* stage strings posted in the concurrent runs
ConcStageInputs == {"closing"}

\* the sessions created before the concurrent runs start
ConcSessions == 1..MaxConcSessions

\* a server started with its catalog loaded, after /start was called
\* MaxConcSessions times
InitConc ==
  /\ session_scores = [i \in ConcSessions |-> new_scoreboard]
  /\ chat_history = << >>
  /\ product_data \in ProductFiles \ {<< >>}
  /\ role_scripts \in ScriptConfigs
  /\ issued = ConcSessions
  /\ pc = [t \in Threads |-> "idle"]
  /\ frame = [t \in Threads |-> NoFrame]
  /\ resp = [t \in Threads |-> NoResp]
  /\ model_calls = [classify |-> 0, generate |-> 0, replied |-> 0]
  /\ chat_calls = [i \in ConcSessions |-> ZeroCalls]

chat_handler_conc(t) ==
  chat_request(t, ConcSessions, ConcStageInputs, MaxConcChats, FALSE)

\* two workers, each running one request at a time, their steps interleaved
NextConc ==
  \E t \in Threads :
    \/ chat_handler_conc(t)
    \/ gen_load(t)
    \/ gen_classify(t)
    \/ update_read(t)
    \/ update_write(t)
    \/ gen_append_user(t)
    \/ gen_call(t)
    \/ gen_append_model(t)
    \/ chat_return(t)

SpecConc == InitConc /\ [][NextConc]_vars

\* ---------------------------------------------------------------- claims
\* thread t has completed a /chat request and frame[t] holds its locals
ChatDone(t) == pc[t] = "idle" /\ frame[t].op = "chat"

\* the seven-key scoreboard with count n at stage s and 0 elsewhere
OnlyStage(s, n) ==
  [k \in {"opening", "discovery", "presentation", "objection_handling",
           "closing", "follow_up", "general"} |-> IF k = s THEN n ELSE 0]

\* C1: when no request is running and every /chat request accepted so far
\* on a session named the same valid label s, N requests in all, the
\* session's counter of s is N and its six other counters are 0, whether
\* the generation calls succeeded or failed.
C1_FixedStageCountsN ==
  \A t \in SeqThreads : \A i \in DOMAIN session_scores :
    \A s \in StageInputs \cap Stages :
      ( /\ pc[t] = "idle"
        /\ \A x \in StageInputs \ {s} : chat_calls[i][x] = 0 )
      => session_scores[i] = OnlyStage(s, chat_calls[i][s])

\* two requests with the same label on one session, the first generation
\* succeeded and the second failed
C1_Witness ==
  /\ ChatDone(1)
  /\ chat_calls[frame[1].session_id]["closing"] = 2
  /\ Sum(chat_calls[frame[1].session_id]) = 2
  /\ frame[1].gen # "ok"
  /\ Len(chat_history) = 3

\* C2: a /scores or /chat response for a session_id that /start never
\* returned is the 400 "Invalid session ID" error, and the step that
\* produces it changes neither the session store, nor the transcript, nor
\* the number of classification and generation calls made.
C2_InvalidSession ==
  [][\A t \in Threads :
       ( /\ resp'[t] # resp[t]
         /\ resp'[t].op \in {"chat", "scores"}
         /\ resp'[t].session_id \notin issued )
       => ( /\ resp'[t].status = 400
            /\ resp'[t].detail = "Invalid session ID"
            /\ UNCHANGED <<session_scores, chat_history, model_calls>> )]_vars

\* a /chat request rejected while sessions and a transcript exist
C2_Witness ==
  /\ resp[1].op = "chat"
  /\ resp[1].status = 400
  /\ resp[1].session_id \in SessionIds
  /\ issued # {}
  /\ chat_history # << >>

\* C3: every scoreboard in the store has exactly the seven labels as keys.
C3_SevenKeys ==
  \A i \in DOMAIN session_scores :
    DOMAIN session_scores[i] =
      {"opening", "discovery", "presentation", "objection_handling",
       "closing", "follow_up", "general"}

\* a request with a stage string that is not a label has completed
C3_Witness ==
  /\ ChatDone(1)
  /\ frame[1].stage = "Opening"
  /\ \E s \in Stages : session_scores[frame[1].session_id][s] > 0

\* C4: a completed /chat request posted with stage "auto" is a success
\* response, and when its classification call failed the resolved stage is
\* "general" and the session's scoreboard is the one before the request
\* with "general" one higher.
C4_AutoNeverFails ==
  \A t \in SeqThreads :
    (ChatDone(t) /\ frame[t].stage_in = "auto")
    => /\ resp[t].status = 200
       /\ frame[t].cls = "failed" =>
            /\ frame[t].stage = "general"
            /\ session_scores[frame[t].session_id] =
                 [frame[t].pre[frame[t].session_id]
                    EXCEPT !["general"] = @ + 1]

\* a failed classification on a session whose "general" counter was 1
C4_Witness ==
  /\ ChatDone(1)
  /\ frame[1].cls = "failed"
  /\ frame[1].pre[frame[1].session_id]["general"] = 1
  /\ resp[1].status = 200

\* C5: a /scores response for an identifier that /start returned and on
\* which no /chat request was accepted is a success with seven zeros.
C5_FreshScoresZero ==
  \A t \in SeqThreads :
    ( /\ resp[t].op = "scores"
      /\ resp[t].session_id \in issued
      /\ Sum(chat_calls[resp[t].session_id]) = 0 )
    => /\ resp[t].status = 200
       /\ resp[t].scores = OnlyStage("general", 0)

\* scores of a fresh session queried after another session has chatted
C5_Witness ==
  /\ resp[1].op = "scores"
  /\ resp[1].session_id \in issued
  /\ Sum(chat_calls[resp[1].session_id]) = 0
  /\ \E j \in DOMAIN session_scores : Sum(session_scores[j]) > 0
\* C6: a completed /chat request whose generation call failed with reason r
\* is a success response whose response field is the error marker holding
\* r, together with the session's scores.
C6_GenerationFailureIsSuccess ==
  \A t \in SeqThreads :
    (ChatDone(t) /\ frame[t].gen \in FailureReasons)
    => /\ resp[t].op = "chat"
       /\ resp[t].status = 200
       /\ resp[t].response = <<"Response error: ", frame[t].gen>>
       /\ resp[t].scores = session_scores[frame[t].session_id]

\* a failed generation on a request that did increment a counter
C6_Witness ==
  /\ ChatDone(1)
  /\ frame[1].gen = "quota exceeded"
  /\ resp[1].status = 200
  /\ Sum(resp[1].scores) > 0

\* the counters of session i that differ between two stores
Changed(before, after, i) ==
  {s \in DOMAIN before[i] \cup DOMAIN after[i] :
     \/ s \notin DOMAIN before[i]
     \/ s \notin DOMAIN after[i]
     \/ before[i][s] # after[i][s]}

\* C7: at every position of a /chat request on session A, the store differs
\* from the store at the start of the request in at most one counter, that
\* counter is in A's scoreboard, and every other session's scoreboard is
\* as it was.
C7_ScoresPartitioned ==
  \A t \in SeqThreads :
    frame[t].op = "chat"
    => /\ DOMAIN session_scores = DOMAIN frame[t].pre
       /\ \A b \in DOMAIN session_scores \ {frame[t].session_id} :
            session_scores[b] = frame[t].pre[b]
       /\ Cardinality(Changed(frame[t].pre, session_scores,
                               frame[t].session_id)) <= 1

\* a request that changed a counter of its session while another session
\* holds counts at the same stage
C7_Witness ==
  /\ ChatDone(1)
  /\ Changed(frame[1].pre, session_scores, frame[1].session_id)
       = {frame[1].stage}
  /\ \E b \in DOMAIN session_scores \ {frame[1].session_id} :
       session_scores[b][frame[1].stage] > 0

\* the prompts of the user turns of a transcript, in order
RECURSIVE UserPrompts(_)
UserPrompts(h) ==
  IF h = << >> THEN << >>
  ELSE IF h[1].role = "user"
       THEN <<h[1].parts.user>> \o UserPrompts(Tail(h))
       ELSE UserPrompts(Tail(h))

\* C8: the transcript handed to the generation call of a /chat request is
\* the shared transcript as it was when the request started, followed by
\* the request's own user turn; it holds the user turn of every /chat
\* request accepted so far, of any session, in the order of the requests.
C8_WholeTranscriptHanded ==
  \A t \in SeqThreads :
    (frame[t].op = "chat" /\ frame[t].gen # "none")
    => LET h == frame[t].handed
       IN /\ Len(h) = Len(frame[t].hist0) + 1
          /\ SubSeq(h, 1, Len(h) - 1) = frame[t].hist0
          /\ h[Len(h)].role = "user"
          /\ h[Len(h)].parts.user = frame[t].prompt
          /\ UserPrompts(h) = [k \in 1..frame[t].prompt |-> k]

\* the second request, on another session than the first, is handed the
\* first request's two turns and its own
C8_Witness ==
  /\ frame[1].op = "chat"
  /\ frame[1].gen # "none"
  /\ Len(frame[1].handed) = 3
  /\ Cardinality({i \in DOMAIN chat_calls : Sum(chat_calls[i]) > 0}) = 2

\* C9: a /start step adds exactly one identifier to the store, one that was
\* not in it, with a zero scoreboard, and leaves the scoreboards of the
\* sessions already there and the transcript unchanged.
C9_StartIsFresh ==
  [][\A t \in SeqThreads :
       ( /\ resp'[t].op = "start"
         /\ pc[t] = "idle"
         /\ resp'[t] # resp[t] \/ session_scores' # session_scores )
       => ( /\ resp'[t].session_id \notin DOMAIN session_scores
            /\ DOMAIN session_scores' =
                 DOMAIN session_scores \cup {resp'[t].session_id}
            /\ \A i \in DOMAIN session_scores :
                 session_scores'[i] = session_scores[i]
            /\ session_scores'[resp'[t].session_id] = OnlyStage("general", 0)
            /\ chat_history' = chat_history )]_vars

\* the second session is created after the first one has chatted
C9_Witness ==
  /\ resp[1].op = "start"
  /\ Cardinality(DOMAIN session_scores) = 2
  /\ \E j \in DOMAIN session_scores : Sum(session_scores[j]) > 0
  /\ chat_history # << >>

\* C10: the scores of a /chat success response hold the increment of that
\* request, and a /scores request for the same session made right after it
\* returns the same scores.
C10_ChatScoresCurrent ==
  [][\A t \in SeqThreads :
       ( /\ resp[t].op = "chat"
         /\ resp[t].status = 200
         /\ resp'[t].op = "scores"
         /\ resp'[t].session_id = resp[t].session_id )
       => ( /\ resp'[t].status = 200
            /\ resp'[t].scores = resp[t].scores
            /\ frame[t].stage \in Stages =>
                 resp[t].scores[frame[t].stage] =
                   frame[t].pre[frame[t].session_id][frame[t].stage] + 1 )]_vars

\* a /chat response that reports the second increment of a counter
C10_Witness ==
  /\ ChatDone(1)
  /\ resp[1].op = "chat"
  /\ resp[1].status = 200
  /\ frame[1].stage \in Stages
  /\ resp[1].scores[frame[1].stage] = 2
\* C11: a /chat request on an existing session whose stage string is
\* neither "auto" nor one of the seven labels leaves the whole session store
\* as it was (no counter changed, no key added) and makes no classification
\* call; it still appends its user turn, built with the stage string as
\* posted, makes one generation call and returns a success response.
C11_UnknownStageCountsNothing ==
  \A t \in SeqThreads :
    ( /\ frame[t].op = "chat"
      /\ frame[t].stage_in \notin
           {"auto", "opening", "discovery", "presentation",
            "objection_handling", "closing", "follow_up", "general"} )
    => /\ session_scores = frame[t].pre
       /\ model_calls.classify = frame[t].calls0.classify
       /\ ChatDone(t) =>
            /\ resp[t].status = 200
            /\ model_calls.generate = frame[t].calls0.generate + 1
            /\ Len(chat_history) > Len(frame[t].hist0)
            /\ LET turn == chat_history[Len(frame[t].hist0) + 1]
               IN /\ turn.role = "user"
                  /\ turn.parts.context = <<frame[t].role, frame[t].stage_in>>
                  /\ turn.parts.user = frame[t].prompt
                  /\ frame[t].handed[Len(frame[t].handed)] = turn

\* such a request completed with a reply on a session that has counts
C11_Witness ==
  /\ ChatDone(1)
  /\ frame[1].stage_in = "Opening"
  /\ frame[1].gen = "ok"
  /\ Sum(session_scores[frame[1].session_id]) > 0
\* C12: under SpecClassify, once a request posted with "auto" has been
\* classified its stage is one of the seven labels: "general" when the call
\* failed, the word of the returned text (whatever its casing and padding)
\* when that word is a label, "general" otherwise; and when the request has
\* completed, its session's scoreboard is the one before the request with
\* exactly that stage one higher, and no other session changed.
C12_ClassifierTotal ==
  \A t \in SeqThreads :
    (frame[t].op = "chat" /\ frame[t].stage_in = "auto"
       /\ frame[t].cls # "none")
    => LET labels == {"opening", "discovery", "presentation",
                      "objection_handling", "closing", "follow_up",
                      "general"}
           sid == frame[t].session_id
       IN /\ frame[t].stage \in labels
          /\ frame[t].cls = "failed" => frame[t].stage = "general"
          /\ frame[t].cls = "ok" =>
               frame[t].stage = IF frame[t].cls_text.word \in labels
                                THEN frame[t].cls_text.word
                                ELSE "general"
          /\ ChatDone(t) =>
               session_scores =
                 [frame[t].pre EXCEPT ![sid][frame[t].stage] = @ + 1]

\* a padded, capitalised label was returned and counted
C12_Witness ==
  /\ ChatDone(1)
  /\ frame[1].cls_text = [word |-> "follow_up", caps |-> TRUE, pad |-> TRUE]
  /\ session_scores[frame[1].session_id]["follow_up"] = 1
  /\ Cardinality(DOMAIN session_scores) = 2
\* the seven labels, written out
SevenLabels ==
  {"opening", "discovery", "presentation", "objection_handling",
   "closing", "follow_up", "general"}

\* the store before request f with the counter of its resolved stage one
\* higher, or as it was when the resolved stage is not a label
Incremented(f) ==
  IF f.stage \in SevenLabels
  THEN [f.pre EXCEPT ![f.session_id][f.stage] = @ + 1]
  ELSE f.pre

\* C13: when a /chat request is about to make its generation call, the
\* counter of its resolved stage is already incremented and its user turn is
\* already the last turn of the transcript; when it has completed after a
\* reply the transcript is the one at its start plus its user turn and the
\* model turn, after a failure plus its user turn only, the increment kept
\* in both cases; and every generation call is handed all user turns
\* appended so far, answered or not.
C13_NoRollback ==
  \A t \in SeqThreads :
    frame[t].op = "chat" =>
      LET f == frame[t]
          n == Len(f.hist0)
      IN /\ pc[t] = "generate" =>
              /\ session_scores = Incremented(f)
              /\ Len(chat_history) = n + 1
              /\ SubSeq(chat_history, 1, n) = f.hist0
              /\ chat_history[n + 1].role = "user"
              /\ chat_history[n + 1].parts.user = f.prompt
         /\ (ChatDone(t) /\ f.gen = "ok") =>
              /\ session_scores = Incremented(f)
              /\ Len(chat_history) = n + 2
              /\ SubSeq(chat_history, 1, n) = f.hist0
              /\ chat_history[n + 1].role = "user"
              /\ chat_history[n + 1].parts.user = f.prompt
              /\ chat_history[n + 2] = [role |-> "model", parts |-> f.response]
         /\ (ChatDone(t) /\ f.gen \in FailureReasons) =>
              /\ session_scores = Incremented(f)
              /\ Len(chat_history) = n + 1
              /\ SubSeq(chat_history, 1, n) = f.hist0
              /\ chat_history[n + 1].role = "user"
              /\ chat_history[n + 1].parts.user = f.prompt
         /\ f.gen # "none" =>
              /\ UserPrompts(f.handed) = [k \in 1..f.prompt |-> k]
              /\ Len(f.handed) = f.prompt + f.calls0.replied

\* a request that got its reply after being handed the unanswered user turn
\* of an earlier, failed request
C13_Witness ==
  /\ ChatDone(1)
  /\ frame[1].gen = "ok"
  /\ frame[1].stage \in Stages
  /\ Len(frame[1].handed) = 2
  /\ frame[1].handed[1].role = "user"
  /\ frame[1].handed[2].role = "user"
  /\ Len(chat_history) = 3
\* C14: under SpecConc the increment is a read followed by a write with
\* nothing in between to stop another request: the write of a request sets
\* the counter to the value that request read plus one, whatever the counter
\* holds by then, and changes nothing else.  (The lost update itself is the
\* state C14_Witness.)
C14_UnguardedIncrement ==
  [][\A t \in Threads :
       (pc[t] = "score_write" /\ pc'[t] # "score_write")
       => session_scores' =
            [session_scores EXCEPT
               ![frame[t].session_id][frame[t].stage] = frame[t].tmp + 1]]_vars

\* two requests on the same session and stage have both completed with a
\* success response and the counter has risen from 0 to 1 only
C14_Witness ==
  /\ ChatDone(1) /\ ChatDone(2)
  /\ resp[1].status = 200 /\ resp[2].status = 200
  /\ frame[1].session_id = frame[2].session_id
  /\ frame[1].stage = "closing" /\ frame[2].stage = "closing"
  /\ chat_calls[frame[1].session_id]["closing"] = 2
  /\ session_scores[frame[1].session_id]["closing"] = 1
\* h is an initial part of g
IsPrefix(h, g) == Len(h) <= Len(g) /\ SubSeq(g, 1, Len(h)) = h

\* C15 as stated: in every step of every execution no session is removed,
\* no counter decreases and the transcript only gets turns appended.
C15_StateOnlyGrows ==
  [][/\ DOMAIN session_scores \subseteq DOMAIN session_scores'
     /\ \A i \in DOMAIN session_scores : \A s \in DOMAIN session_scores[i] :
          /\ s \in DOMAIN session_scores'[i]
          /\ session_scores'[i][s] >= session_scores[i][s]
     /\ IsPrefix(chat_history, chat_history')]_vars

\* C15 as amended: in every step of every execution, concurrent ones
\* included, no session and no counter key is removed and the transcript
\* only gets turns appended; a counter decreases only in the counter write
\* of a request that read the counter before another request wrote it (a
\* stale write), so never when requests run one at a time.
C15_GrowsExceptStaleWrite ==
  [][/\ DOMAIN session_scores \subseteq DOMAIN session_scores'
     /\ \A i \in DOMAIN session_scores : \A s \in DOMAIN session_scores[i] :
          /\ s \in DOMAIN session_scores'[i]
          /\ session_scores'[i][s] < session_scores[i][s] =>
               \E t \in Threads :
                 /\ pc[t] = "score_write" /\ pc'[t] # "score_write"
                 /\ frame[t].session_id = i /\ frame[t].stage = s
                 /\ frame[t].tmp < session_scores[i][s]
                 /\ session_scores'[i][s] = frame[t].tmp + 1
     /\ IsPrefix(chat_history, chat_history')]_vars

\* three requests on one counter have completed and the counter is 1: the
\* last write was a stale one that took the counter from 2 back to 1
C15_Witness ==
  /\ pc[1] = "idle" /\ pc[2] = "idle"
  /\ \E i \in DOMAIN session_scores :
       /\ chat_calls[i]["closing"] = 3
       /\ session_scores[i]["closing"] = 1
  /\ Len(chat_history) >= 3
\* the accepted /chat requests on session i whose stage field was "auto" or
\* one of the seven labels
CountedCalls(i) ==
  Sum([x \in DOMAIN chat_calls[i] \cap ({"auto"} \cup SevenLabels)
         |-> chat_calls[i][x]])

\* C16: when no request is running, the seven counters of every session add
\* up to the number of /chat requests accepted for it whose stage field was
\* "auto" or a label, whatever their classification and generation calls did.
C16_SumCountsRequests ==
  \A t \in SeqThreads :
    pc[t] = "idle" =>
      \A i \in DOMAIN session_scores :
        Sum(session_scores[i]) = CountedCalls(i)

\* a session that took one request with "auto" and one with a string that
\* is not a label, the last generation call failing
C16_Witness ==
  /\ ChatDone(1)
  /\ frame[1].gen \in FailureReasons
  /\ chat_calls[frame[1].session_id]["auto"] = 1
  /\ chat_calls[frame[1].session_id]["Opening"] = 1
  /\ Sum(session_scores[frame[1].session_id]) = 1
\* the positions of the handler before the user turn is appended
BeforeUserTurn == {"load", "classify", "score_read", "score_write", "append_user"}

\* C17: under SpecConc no turn is lost in any interleaving: the transcript
\* holds one user turn for every request that has appended its own and one
\* model turn for every reply that was appended, each request's user turn
\* and model turn are still where it put them, the user turn first, and
\* when two requests, the only ones so far, have both completed with a
\* reply the transcript has exactly four turns.
C17_NoTurnLost ==
  /\ Len(chat_history) =
       (NumChats - Cardinality({t \in Threads : pc[t] \in BeforeUserTurn}))
       + (model_calls.replied
            - Cardinality({t \in Threads : pc[t] = "append_model"}))
  /\ \A t \in Threads :
       frame[t].op = "chat" =>
         /\ frame[t].user_pos > 0 =>
              /\ frame[t].user_pos <= Len(chat_history)
              /\ chat_history[frame[t].user_pos].role = "user"
              /\ chat_history[frame[t].user_pos].parts.user = frame[t].prompt
         /\ frame[t].model_pos > 0 =>
              /\ frame[t].user_pos < frame[t].model_pos
              /\ frame[t].model_pos <= Len(chat_history)
              /\ chat_history[frame[t].model_pos] =
                   [role |-> "model", parts |-> frame[t].response]
  /\ ( /\ ChatDone(1) /\ ChatDone(2)
       /\ frame[1].gen = "ok" /\ frame[2].gen = "ok"
       /\ NumChats = 2 )
     => /\ Len(chat_history) = 4
        /\ {frame[1].user_pos, frame[1].model_pos,
            frame[2].user_pos, frame[2].model_pos} = 1..4

\* both requests completed with a reply, and the generation call of the
\* first was handed the user turn of the second with no reply after it
C17_Witness ==
  /\ ChatDone(1) /\ ChatDone(2)
  /\ frame[1].gen = "ok" /\ frame[2].gen = "ok"
  /\ NumChats = 2
  /\ Len(chat_history) = 4
  /\ Len(frame[1].handed) = 2
  /\ frame[1].handed[1].role = "user"
  /\ frame[1].handed[1].parts.user = frame[2].prompt
  /\ frame[1].handed[2].parts.user = frame[1].prompt
\* C18: a /chat request past its catalog check has attempted a reload
\* exactly when the catalog was empty at the check; a failed load left the
\* catalog empty and the request, once completed, is a success response
\* with its counter incremented and one generation call made; a request
\* that found the catalog non-empty left it as it was.
C18_LazyReload ==
  \A t \in SeqThreads :
    (frame[t].op = "chat" /\ frame[t].load # "none")
    => /\ frame[t].load \in {"failed", "loaded"} <=> frame[t].cat0 = << >>
       /\ frame[t].load = "skipped" <=> frame[t].cat0 # << >>
       /\ frame[t].load = "failed" => product_data = << >>
       /\ frame[t].load = "skipped" => product_data = frame[t].cat0
       /\ (ChatDone(t) /\ frame[t].load = "failed") =>
            /\ resp[t].status = 200
            /\ session_scores = Incremented(frame[t])
            /\ model_calls.generate = frame[t].calls0.generate + 1

\* a request whose reload failed has counted its stage and got a reply
C18_Witness ==
  /\ ChatDone(1)
  /\ frame[1].load = "failed"
  /\ frame[1].stage \in Stages
  /\ frame[1].gen = "ok"
  /\ resp[1].status = 200
  /\ chat_history[Len(chat_history) - 1].parts.products = <<"No product data.">>

====
